---- MODULE Spec2Model ----
(***************************************************************************)
(* Model of the 3D model viewer's application state (src/src/App.tsx),     *)
(* the annotation placement / drag controller and the WebGL context-loss   *)
(* handler (src/src/components/ModelViewer.tsx) and the sidebar commands   *)
(* (src/src/components/Sidebar.tsx).                                       *)
(*                                                                         *)
(* Every handler runs to completion on the UI thread and React re-renders  *)
(* between two discrete events, so each handler is one atomic action that  *)
(* reads the state left by the previous one.                               *)
(***************************************************************************)
EXTENDS Integers, Sequences, FiniteSets, TLC

\* ---------------------------------------------------------------- bounds
\* number of ids uuidv4() hands out in one behaviour
MaxIds == 2
\* number of page reloads followed in one behaviour
MaxReloads == 3
\* number of files uploaded in one behaviour
MaxUploads == 3

\* ------------------------------------------------------------- constants
\* reload attempts allowed by handleContextLost
MaxReloadAttempts == 2
\* slider range of the time of day
SliderMin == 0
\* a slider that ends one step later
SliderMax_OneMore == 24 + 1
SliderMax == 24
\* initial time of day
InitialTimeOfDay == 12

\* ------------------------------------------------------------ the values
Ids == 1 .. MaxIds
\* null of a string|null id
NoId == 0
\* world points e.point the ray caster reports (THREE.Vector3)
Points == { [x |-> 0, y |-> 0, z |-> 0], [x |-> 1, y |-> 2, z |-> 3] }
\* null of a [number, number, number]|null
NoPoint == << >>
\* null of a File|null and of a THREE.Object3D|null
NoFile == [ n |-> 0, name |-> << >> ]
NoObject == 0
\* null of the error string|null
NoError == ""
\* texts typed into the sidebar's title input and description textarea
Titles == { "New Annotation", "Door" }
Descriptions == { "", "Hinge" }

VARIABLES
    \* App.tsx state
    annotations, showAnnotations, timeOfDay, nightLightsEnabled,
    \* ModelViewer.tsx state
    placing, draggingId, dragOverPoint,
    \* useWebGLContextLossHandler refs and its pending reload timers
    contextLost, reloadAttempts, reloadTimers,
    \* the environment: the pointer's gesture, whether a pointermove reached
    \* the canvas since the last pointerdown on a marker, the ids uuidv4 has
    \* issued, the page loads so far, and the last event delivered
    pointer, downOn, upOn, moved, issued, reloads, lastEvent,
    \* App.tsx: the uploaded file; LoadedModel's state; the loader requests
    \* whose callbacks are still to come; the files uploaded so far
    modelFile, object, error, loads, uploads,
    \* ModelViewer.tsx: the HDRI toggle; SafeHdriScene's state, its timeout
    \* and its loader request
    useHdri, hdriLoaded, hdriError, hdriTimeout, hdriLoad

appVars == << annotations, showAnnotations, timeOfDay, nightLightsEnabled >>
lightVars == << timeOfDay, nightLightsEnabled >>
viewerVars == << placing, draggingId, dragOverPoint >>
dragVars == << draggingId, dragOverPoint >>
surfaceVars == << contextLost, reloadAttempts, reloadTimers, reloads >>
pointerVars == << pointer, downOn, upOn >>
modelVars == << modelFile, object, error, loads, uploads >>
hdriVars == << useHdri, hdriLoaded, hdriError, hdriTimeout, hdriLoad >>
assetVars == << modelVars, hdriVars >>
vars == << annotations, showAnnotations, timeOfDay, nightLightsEnabled,
           placing, draggingId, dragOverPoint,
           contextLost, reloadAttempts, reloadTimers,
           pointer, downOn, upOn, moved, issued, reloads, lastEvent,
           modelFile, object, error, loads, uploads,
           useHdri, hdriLoaded, hdriError, hdriTimeout, hdriLoad >>

\* ---------------------------------------------------------- pure helpers
\* [point.x, point.y, point.z]
PointTuple(point) == << point.x, point.y, point.z >>

\* uuidv4(): an id that was never handed out before
uuidv4 == issued + 1

\* the object literal handleSceneClick appends
NewAnnotation(id, point) ==
    [ id |-> id, position |-> PointTuple(point),
      title |-> "New Annotation", description |-> "" ]

\* EditMap without the test of the id: every annotation is rewritten
EditMap_EveryAnnotation(a, id, title, description) ==
    [ i \in 1 .. Len(a) |->
        [ a[i] EXCEPT !.title = title, !.description = description ] ]

\* a.map(ann => ann.id === id ? { ...ann, title, description } : ann)
EditMap(a, id, title, description) ==
    [ i \in 1 .. Len(a) |->
        IF a[i].id = id
        THEN [ a[i] EXCEPT !.title = title, !.description = description ]
        ELSE a[i] ]

\* a.filter(ann => ann.id !== id)
DeleteFilter(a, id) == SelectSeq(a, LAMBDA ann : ann.id # id)

\* CommitMap without the test of the id: every annotation is moved
CommitMap_EveryAnnotation(prev, id, point) ==
    [ i \in 1 .. Len(prev) |-> [ prev[i] EXCEPT !.position = point ] ]

\* prev.map(ann => ann.id === id ? { ...ann, position: dragOverPoint } : ann)
CommitMap(prev, id, point) ==
    [ i \in 1 .. Len(prev) |->
        IF prev[i].id = id
        THEN [ prev[i] EXCEPT !.position = point ]
        ELSE prev[i] ]

\* the ids of the annotations in the list
IdsOf(a) == { a[i].id : i \in 1 .. Len(a) }

Event(type, id, point) == [ type |-> type, id |-> id, point |-> point ]

\* names of the files the user picks, as sequences of characters
FileNames ==
    { << "a", ".", "o", "b", "j" >>,
      << "A", ".", "F", "B", "X" >>,
      << "a", ".", "g", "l", "b" >> }

\* String.prototype.toLowerCase, on the characters of FileNames
LowerChar(c) ==
    CASE c = "A" -> "a" [] c = "F" -> "f" [] c = "B" -> "b" [] c = "X" -> "x"
      [] OTHER -> c
toLowerCase(str) == [ i \in 1 .. Len(str) |-> LowerChar(str[i]) ]

\* String.prototype.endsWith
endsWith(str, suffix) ==
    /\ Len(suffix) <= Len(str)
    /\ SubSeq(str, Len(str) - Len(suffix) + 1, Len(str)) = suffix

\* the branch of loadModel the name of the file selects
IsObj(name) == endsWith(toLowerCase(name), << ".", "o", "b", "j" >>)
IsFbx(name) ==
    ~IsObj(name) /\ endsWith(toLowerCase(name), << ".", "f", "b", "x" >>)

\* ------------------------------------------------------------------ Init
Init ==
    /\ annotations = << >>
    /\ showAnnotations = TRUE
    /\ timeOfDay = InitialTimeOfDay
    /\ nightLightsEnabled = TRUE
    /\ placing = FALSE
    /\ draggingId = NoId
    /\ dragOverPoint = NoPoint
    /\ contextLost = FALSE
    /\ reloadAttempts = 0
    /\ reloadTimers = 0
    /\ pointer = "up"
    /\ downOn = NoId
    /\ upOn = NoId
    /\ moved = FALSE
    /\ issued = 0
    /\ reloads = 0
    /\ lastEvent = Event("load", NoId, NoPoint)
    /\ modelFile = NoFile
    /\ object = NoObject
    /\ error = NoError
    /\ loads = { }
    /\ uploads = 0
    /\ useHdri = FALSE
    /\ hdriLoaded = FALSE
    /\ hdriError = FALSE
    /\ hdriTimeout = "none"
    /\ hdriLoad = "none"

\* -------------------------------------------------- App.tsx: derived state
\* isNight with > in place of >=
isNight_After20 == timeOfDay > 20 \/ timeOfDay < 6

\* const isNight = timeOfDay >= 20 || timeOfDay < 6
isNight == timeOfDay >= 20 \/ timeOfDay < 6

\* ------------------------------------- ModelViewer.tsx: the lighting
\* Numbers of the lighting are kept in millionths.  A double that is not
\* zero is rounded away from zero, so that it stays different from zero.
Micro == 1000000

Max(a, b) == IF a >= b THEN a ELSE b

\* Math.sin(Math.PI * ((timeOfDay - 6) / 12)) for the slider's values 0 .. 24;
\* Math.sin(Math.PI) is the double 1.2246467991473532e-16, not 0
MathSin(h) ==
    << -1000000, -965926, -866026, -707107, -500000, -258820,
       0, 258820, 500000, 707107, 866026, 965926,
       1000000, 965926, 866026, 707107, 500000, 258820,
       1, -258820, -500000, -707107, -866026, -965926, -1000000 >>[h + 1]

\* Math.cos(Math.PI * ((timeOfDay - 6) / 12)) for the slider's values 0 .. 24;
\* Math.cos(Math.PI / 2) is the double 6.123233995736766e-17, not 0
MathCos(h) ==
    << 1, 258820, 500000, 707107, 866026, 965926,
       1000000, 965926, 866026, 707107, 500000, 258820,
       1, -258820, -500000, -707107, -866026, -965926,
       -1000000, -965926, -866026, -707107, -500000, -258820, -1 >>[h + 1]

\* getSunParams with the colour band t <= 0.25 || t >= 0.75
getSunParams_WiderBand(h) ==
    LET tNum == h - 6 IN
    [ position |-> << MathCos(h) * 10,
                      Max(MathSin(h), 50000) * 10,
                      7500000 >>,
      color |-> IF 100 * tNum <= 25 * 12 \/ 100 * tNum >= 75 * 12
                THEN "#ffb347" ELSE "#fffbe6",
      intensity |-> IF tNum < 0 \/ tNum > 12 THEN 0
                    ELSE Max(MathSin(h), 0) ]

\* getSunParams(timeOfDay), with t = tNum / 12
getSunParams(h) ==
    LET tNum == h - 6 IN
    [ position |-> << MathCos(h) * 10,
                      Max(MathSin(h), 50000) * 10,
                      7500000 >>,
      color |-> IF 10 * tNum < 2 * 12 \/ 10 * tNum > 8 * 12
                THEN "#ffb347" ELSE "#fffbe6",
      intensity |-> IF tNum < 0 \/ tNum > 12 THEN 0
                    ELSE Max(MathSin(h), 0) ]

\* const sunParams = getSunParams(timeOfDay)
sunParams == getSunParams(timeOfDay)
\* const ambientIntensity = isNight ? 0.15 : 0.4
ambientIntensity == IF isNight THEN 150000 ELSE 400000
\* const ambientColor = isNight ? '#222233' : '#ffffff'
ambientColor == IF isNight THEN "#222233" ELSE "#ffffff"

\* the night lights rendered without the test of isNight
pointLights_AnyHour ==
    IF nightLightsEnabled
    THEN << [ position |-> << 0, 2, 0 >>, intensity |-> 700000,
              color |-> "#aaf", distance |-> 8 ],
            [ position |-> << 2, 2, 2 >>, intensity |-> 500000,
              color |-> "#fff", distance |-> 6 ],
            [ position |-> << -2, 2, -2 >>, intensity |-> 500000,
              color |-> "#fff", distance |-> 6 ] >>
    ELSE << >>

\* {isNight && nightLightsEnabled && (<> three pointLight </>)}
pointLights ==
    IF isNight /\ nightLightsEnabled
    THEN << [ position |-> << 0, 2, 0 >>, intensity |-> 700000,
              color |-> "#aaf", distance |-> 8 ],
            [ position |-> << 2, 2, 2 >>, intensity |-> 500000,
              color |-> "#fff", distance |-> 6 ],
            [ position |-> << -2, 2, -2 >>, intensity |-> 500000,
              color |-> "#fff", distance |-> 6 ] >>
    ELSE << >>

\* ------------------------------------------ ModelViewer.tsx: the handlers
\* const startPlacing = () => setPlacing(true)
startPlacing == placing' = TRUE

\* handleSceneClick without setPlacing(false)
handleSceneClick_StaysArmed(point) ==
    IF ~placing
    THEN UNCHANGED << annotations, placing, issued >>
    ELSE /\ annotations' = Append(annotations, NewAnnotation(uuidv4, point))
         /\ issued' = issued + 1
         /\ UNCHANGED placing

\* handleSceneClick: the click handler of the canvas
handleSceneClick(point) ==
    IF ~placing
    THEN UNCHANGED << annotations, placing, issued >>
    ELSE /\ annotations' = Append(annotations, NewAnnotation(uuidv4, point))
         /\ issued' = issued + 1
         /\ placing' = FALSE

\* handleMarkerPointerDown without setDragOverPoint(null)
handleMarkerPointerDown_KeepsPreview(id) ==
    /\ draggingId' = id
    /\ UNCHANGED dragOverPoint

\* handleMarkerPointerDown(id)
handleMarkerPointerDown(id) ==
    /\ draggingId' = id
    /\ dragOverPoint' = NoPoint

\* handleMarkerPointerUp without the test of dragOverPoint
handleMarkerPointerUp_NoPreviewTest(id) ==
    /\ IF draggingId = id
       THEN annotations' = CommitMap(annotations, id, dragOverPoint)
       ELSE UNCHANGED annotations
    /\ draggingId' = NoId
    /\ dragOverPoint' = NoPoint

\* handleMarkerPointerUp(id)
handleMarkerPointerUp(id) ==
    /\ IF draggingId = id /\ dragOverPoint # NoPoint
       THEN annotations' = CommitMap(annotations, id, dragOverPoint)
       ELSE UNCHANGED annotations
    /\ draggingId' = NoId
    /\ dragOverPoint' = NoPoint

\* handleMarkerPointerMove(id): the preview it leaves, given the preview before
handleMarkerPointerMove(id, point, preview) ==
    IF draggingId = id THEN PointTuple(point) ELSE preview

\* handleScenePointerMove without the test of draggingId
handleScenePointerMove_NoDragTest(point, preview) ==
    PointTuple(point)

\* handleScenePointerMove: the preview it leaves, given the preview before
handleScenePointerMove(point, preview) ==
    IF draggingId # NoId THEN PointTuple(point) ELSE preview

\* --------------------------------------- ModelViewer: the markers rendered
\* the props of a marker with the preview shown for every annotation
AnnotationMarker_PreviewForAll(ann) ==
    [ key        |-> ann.id,
      position   |-> IF dragOverPoint # NoPoint
                     THEN dragOverPoint ELSE ann.position,
      show       |-> showAnnotations,
      isDragging |-> draggingId = ann.id,
      isSelected |-> draggingId = ann.id ]

\* the props <AnnotationMarker ... /> is rendered with for annotation ann
AnnotationMarker(ann) ==
    [ key        |-> ann.id,
      position   |-> IF draggingId = ann.id /\ dragOverPoint # NoPoint
                     THEN dragOverPoint ELSE ann.position,
      show       |-> showAnnotations,
      isDragging |-> draggingId = ann.id,
      isSelected |-> draggingId = ann.id ]

\* annotations.map(ann => <AnnotationMarker ... />)
Markers ==
    [ i \in 1 .. Len(annotations) |-> AnnotationMarker(annotations[i]) ]

\* ------------------------------------------------ App.tsx: the handlers
\* handleEditAnnotation(id, title, description)
handleEditAnnotation(id, title, description) ==
    annotations' = EditMap(annotations, id, title, description)

\* handleDeleteAnnotation(id)
handleDeleteAnnotation(id) ==
    annotations' = DeleteFilter(annotations, id)

\* ------------------------------------------ LoadedModel: the effect
\* A loader request is [file: the number of the upload it loads, name: the
\* name of the file, disposed: the `disposed` flag of the effect that
\* started it].

\* the cleanup of the effect: disposed = true; setObject(null)
modelEffectCleanup(requests) ==
    { [ r EXCEPT !.disposed = TRUE ] : r \in requests }

\* the effect without the branch of the unsupported file types
modelEffect_IgnoresUnsupported(file) ==
    /\ object' = NoObject
    /\ IF IsObj(file.name) \/ IsFbx(file.name)
       THEN /\ loads' = modelEffectCleanup(loads) \cup
                  { [ file |-> file.n, name |-> file.name,
                      disposed |-> FALSE ] }
            /\ UNCHANGED error
       ELSE /\ loads' = modelEffectCleanup(loads)
            /\ UNCHANGED error

\* the effect of LoadedModel for a new file: the cleanup of the effect of
\* the file before it, then loadModel()
modelEffect(file) ==
    /\ object' = NoObject
    /\ IF IsObj(file.name) \/ IsFbx(file.name)
       THEN /\ loads' = modelEffectCleanup(loads) \cup
                  { [ file |-> file.n, name |-> file.name,
                      disposed |-> FALSE ] }
            /\ UNCHANGED error
       ELSE /\ loads' = modelEffectCleanup(loads)
            /\ error' = "Unsupported file type"

\* the onLoad callback of a loader without the test of `disposed`
modelOnLoad_NoDisposedTest(r) ==
    object' = r.file

\* (obj) => { if (!disposed) setObject(obj); }
modelOnLoad(r) ==
    IF ~r.disposed THEN object' = r.file ELSE UNCHANGED object

\* (err) => { if (!disposed) setError('Failed to load OBJ: ' + err.message); }
modelOnError(r) ==
    IF ~r.disposed
    THEN error' = IF IsObj(r.name) THEN "Failed to load OBJ"
                  ELSE "Failed to load FBX"
    ELSE UNCHANGED error

\* what LoadedModel renders in the place of the model
LoadedModelRender ==
    IF modelFile = NoFile THEN "nothing"
    ELSE IF error # NoError THEN "failure marker"
    ELSE IF object = NoObject THEN "nothing"
    ELSE "model"

\* ------------------------------------------ SafeHdriScene: the effect
\* the effect on mount: the 5 s timeout is armed and the load is started
hdriEffect ==
    /\ hdriLoaded' = FALSE
    /\ hdriError' = FALSE
    /\ hdriTimeout' = "armed"
    /\ hdriLoad' = "pending"

\* the unmount: the cleanup clears the timeout, the state of the component
\* is gone, and a late callback of its loader reaches nothing that is shown
hdriUnmount ==
    /\ hdriLoaded' = FALSE
    /\ hdriError' = FALSE
    /\ hdriTimeout' = "none"
    /\ hdriLoad' = "none"

\* clearTimeout(timeout)
clearTimeout(timeout) == IF timeout = "armed" THEN "cleared" ELSE timeout

\* the callback of the timeout, reduced to its console.log
hdriOnTimeout_LogOnly ==
    /\ UNCHANGED hdriError
    /\ hdriTimeout' = "fired"

\* the callback of the 5 s timeout
hdriOnTimeout ==
    /\ hdriError' = TRUE
    /\ hdriTimeout' = "fired"

\* the onLoad callback without clearTimeout(timeout)
hdriOnLoad_NoClearTimeout ==
    /\ UNCHANGED hdriTimeout
    /\ hdriLoaded' = TRUE
    /\ hdriLoad' = "loaded"

\* the onLoad callback of the RGBELoader
hdriOnLoad ==
    /\ hdriTimeout' = clearTimeout(hdriTimeout)
    /\ hdriLoaded' = TRUE
    /\ hdriLoad' = "loaded"

\* the onError callback of the RGBELoader
hdriOnError ==
    /\ hdriTimeout' = clearTimeout(hdriTimeout)
    /\ hdriError' = TRUE
    /\ hdriLoad' = "failed"

\* {useHdri ? <SafeHdriScene /> : <SimpleScene />} and SafeHdriScene's render
sceneRendered ==
    IF ~useHdri THEN "SimpleScene"
    ELSE IF hdriError THEN "SimpleScene"
    ELSE IF ~hdriLoaded THEN "loading"
    ELSE "hdri"

\* ------------------------------------- useWebGLContextLossHandler
\* handleContextLost: the 'webglcontextlost' listener
handleContextLost ==
    /\ contextLost' = TRUE
    /\ IF reloadAttempts < MaxReloadAttempts
       THEN /\ reloadAttempts' = reloadAttempts + 1
            /\ reloadTimers' = reloadTimers + 1
       ELSE UNCHANGED << reloadAttempts, reloadTimers >>

\* ------------------------------------------------------------ the events
\* The pointer's gesture on the canvas: "up" (no button pressed), "down"
\* (pressed on the canvas), "click" (released on the canvas: the browser
\* dispatches the click to the canvas right after the pointerup, before any
\* other input).  downOn / upOn are the markers hit by the press and the
\* release, NoId when the ray hit no marker.

\* click on the "Place Annotation" button (disabled while placing)
StartPlacing ==
    /\ pointer = "up"
    /\ ~placing
    /\ issued < MaxIds
    /\ startPlacing
    /\ lastEvent' = Event("startPlacing", NoId, NoPoint)
    /\ UNCHANGED << appVars, dragVars, surfaceVars, pointerVars, issued, moved >>
    /\ UNCHANGED assetVars

\* pointerdown on the marker of annotation id
MarkerPointerDown(id) ==
    /\ pointer = "up"
    /\ showAnnotations
    /\ id \in IdsOf(annotations)
    /\ handleMarkerPointerDown(id)
    /\ pointer' = "down"
    /\ downOn' = id
    /\ moved' = FALSE
    /\ lastEvent' = Event("markerDown", id, NoPoint)
    /\ UNCHANGED << appVars, placing, surfaceVars, upOn, issued >>
    /\ UNCHANGED assetVars

\* pointerdown on the canvas that hits no marker: no handler of the viewer
ScenePointerDown ==
    /\ pointer = "up"
    /\ pointer' = "down"
    /\ downOn' = NoId
    /\ lastEvent' = Event("sceneDown", NoId, NoPoint)
    /\ UNCHANGED << appVars, viewerVars, surfaceVars, upOn, issued, moved >>
    /\ UNCHANGED assetVars

\* pointermove over the marker of annotation id: the marker's handler runs,
\* does not stop the propagation, and the canvas' handler runs after it
MarkerPointerMove(id, point) ==
    /\ pointer # "click"
    /\ showAnnotations
    /\ id \in IdsOf(annotations)
    /\ dragOverPoint' =
         handleScenePointerMove(point,
             handleMarkerPointerMove(id, point, dragOverPoint))
    /\ moved' = TRUE
    /\ lastEvent' = Event("move", NoId, NoPoint)
    /\ UNCHANGED << appVars, placing, draggingId, surfaceVars, pointerVars,
                    issued >>
    /\ UNCHANGED assetVars

\* pointermove over the canvas that hits no marker
ScenePointerMove(point) ==
    /\ pointer # "click"
    /\ dragOverPoint' = handleScenePointerMove(point, dragOverPoint)
    /\ moved' = TRUE
    /\ lastEvent' = Event("move", NoId, NoPoint)
    /\ UNCHANGED << appVars, placing, draggingId, surfaceVars, pointerVars,
                    issued >>
    /\ UNCHANGED assetVars

\* pointerup on the marker of annotation id
MarkerPointerUp(id) ==
    /\ pointer = "down"
    /\ showAnnotations
    /\ id \in IdsOf(annotations)
    /\ handleMarkerPointerUp(id)
    /\ pointer' = "click"
    /\ upOn' = id
    /\ lastEvent' = Event("markerUp", id, NoPoint)
    /\ UNCHANGED << showAnnotations, lightVars, placing, surfaceVars, downOn,
                    issued, moved >>
    /\ UNCHANGED assetVars

\* pointerup on the canvas that hits no marker: no handler of the viewer
ScenePointerUp ==
    /\ pointer = "down"
    /\ pointer' = "click"
    /\ upOn' = NoId
    /\ lastEvent' = Event("sceneUp", NoId, NoPoint)
    /\ UNCHANGED << appVars, viewerVars, surfaceVars, downOn, issued, moved >>
    /\ UNCHANGED assetVars

\* the pointer leaves the canvas and is released outside it: the canvas
\* receives neither a pointerup nor a click
PointerUpOutside ==
    /\ pointer = "down"
    /\ pointer' = "up"
    /\ downOn' = NoId
    /\ upOn' = NoId
    /\ lastEvent' = Event("upOutside", NoId, NoPoint)
    /\ UNCHANGED << appVars, viewerVars, surfaceVars, issued, moved >>
    /\ UNCHANGED assetVars

\* the click that follows a release on the canvas, at world point `point`
SceneClick(point) ==
    /\ pointer = "click"
    /\ handleSceneClick(point)
    /\ pointer' = "up"
    /\ downOn' = NoId
    /\ upOn' = NoId
    /\ lastEvent' = Event("click", NoId, PointTuple(point))
    /\ UNCHANGED << showAnnotations, lightVars, dragVars, surfaceVars,
                    moved >>
    /\ UNCHANGED assetVars

\* Sidebar: onChange of the title input of annotation id
EditTitle(id, title) ==
    /\ pointer # "click"
    /\ \E i \in 1 .. Len(annotations) :
         /\ annotations[i].id = id
         /\ handleEditAnnotation(id, title, annotations[i].description)
    /\ lastEvent' = Event("edit", id, NoPoint)
    /\ UNCHANGED << showAnnotations, lightVars, viewerVars, surfaceVars,
                    pointerVars, issued, moved >>
    /\ UNCHANGED assetVars

\* Sidebar: onChange of the description textarea of annotation id
EditDescription(id, description) ==
    /\ pointer # "click"
    /\ \E i \in 1 .. Len(annotations) :
         /\ annotations[i].id = id
         /\ handleEditAnnotation(id, annotations[i].title, description)
    /\ lastEvent' = Event("edit", id, NoPoint)
    /\ UNCHANGED << showAnnotations, lightVars, viewerVars, surfaceVars,
                    pointerVars, issued, moved >>
    /\ UNCHANGED assetVars

\* Sidebar: the Delete button of annotation id
Delete(id) ==
    /\ pointer # "click"
    /\ id \in IdsOf(annotations)
    /\ handleDeleteAnnotation(id)
    /\ lastEvent' = Event("delete", id, NoPoint)
    /\ UNCHANGED << showAnnotations, lightVars, viewerVars, surfaceVars,
                    pointerVars, issued, moved >>
    /\ UNCHANGED assetVars

\* Sidebar: the Show / Hide Annotations button
ToggleShowAnnotations ==
    /\ pointer # "click"
    /\ showAnnotations' = ~showAnnotations
    /\ lastEvent' = Event("toggleShow", NoId, NoPoint)
    /\ UNCHANGED << annotations, lightVars, viewerVars, surfaceVars,
                    pointerVars, issued, moved >>
    /\ UNCHANGED assetVars

\* Sidebar: the time-of-day slider (min 0, max 24, step 1)
SetTimeOfDay(t) ==
    /\ pointer # "click"
    /\ t # timeOfDay
    /\ timeOfDay' = t
    /\ lastEvent' = Event("setTimeOfDay", NoId, NoPoint)
    /\ UNCHANGED << annotations, showAnnotations, nightLightsEnabled,
                    viewerVars, surfaceVars, pointerVars, issued, moved >>
    /\ UNCHANGED assetVars

\* Sidebar: the Night Lights button, rendered only while isNight
ToggleNightLights ==
    /\ pointer # "click"
    /\ isNight
    /\ nightLightsEnabled' = ~nightLightsEnabled
    /\ lastEvent' = Event("toggleNightLights", NoId, NoPoint)
    /\ UNCHANGED << annotations, showAnnotations, timeOfDay, viewerVars,
                    surfaceVars, pointerVars, issued, moved >>
    /\ UNCHANGED assetVars

\* the browser reports the loss of the canvas' WebGL context
ContextLost ==
    /\ pointer # "click"
    /\ reloads < MaxReloads
    /\ handleContextLost
    /\ lastEvent' = Event("contextLost", NoId, NoPoint)
    /\ UNCHANGED << appVars, viewerVars, reloads, pointerVars, issued, moved >>
    /\ UNCHANGED assetVars

\* a reload timer fires: window.location.reload() loads the page anew, and
\* every piece of state of the page starts over
ReloadTimerFires ==
    /\ pointer # "click"
    /\ reloadTimers > 0
    /\ annotations' = << >>
    /\ showAnnotations' = TRUE
    /\ timeOfDay' = InitialTimeOfDay
    /\ nightLightsEnabled' = TRUE
    /\ placing' = FALSE
    /\ draggingId' = NoId
    /\ dragOverPoint' = NoPoint
    /\ contextLost' = FALSE
    /\ reloadAttempts' = 0
    /\ reloadTimers' = 0
    /\ pointer' = "up"
    /\ downOn' = NoId
    /\ upOn' = NoId
    /\ moved' = FALSE
    /\ reloads' = reloads + 1
    /\ lastEvent' = Event("load", NoId, NoPoint)
    /\ modelFile' = NoFile
    /\ object' = NoObject
    /\ error' = NoError
    /\ loads' = { }
    /\ useHdri' = FALSE
    /\ hdriLoaded' = FALSE
    /\ hdriError' = FALSE
    /\ hdriTimeout' = "none"
    /\ hdriLoad' = "none"
    /\ UNCHANGED << issued, uploads >>

\* Sidebar: a file is picked in the upload input; App stores it, LoadedModel
\* renders with it and its effect runs
Upload(name) ==
    /\ pointer # "click"
    /\ uploads < MaxUploads
    /\ uploads' = uploads + 1
    /\ modelFile' = [ n |-> uploads + 1, name |-> name ]
    /\ modelEffect(modelFile')
    /\ lastEvent' = Event("upload", NoId, NoPoint)
    /\ UNCHANGED << appVars, viewerVars, surfaceVars, pointerVars, issued,
                    moved, hdriVars >>

\* the loader of request r calls onLoad
ModelLoaded(r) ==
    /\ pointer # "click"
    /\ r \in loads
    /\ modelOnLoad(r)
    /\ loads' = loads \ { r }
    /\ lastEvent' = Event("modelLoaded", r.file, NoPoint)
    /\ UNCHANGED << appVars, viewerVars, surfaceVars, pointerVars, issued,
                    moved, modelFile, error, uploads, hdriVars >>

\* the loader of request r calls onError
ModelLoadError(r) ==
    /\ pointer # "click"
    /\ r \in loads
    /\ modelOnError(r)
    /\ loads' = loads \ { r }
    /\ lastEvent' = Event("modelLoadError", r.file, NoPoint)
    /\ UNCHANGED << appVars, viewerVars, surfaceVars, pointerVars, issued,
                    moved, modelFile, object, uploads, hdriVars >>

\* click on the Enable / Disable HDRI button
ToggleHdri ==
    /\ pointer # "click"
    /\ useHdri' = ~useHdri
    /\ IF useHdri' THEN hdriEffect ELSE hdriUnmount
    /\ lastEvent' = Event("toggleHdri", NoId, NoPoint)
    /\ UNCHANGED << appVars, viewerVars, surfaceVars, pointerVars, issued,
                    moved, modelVars >>

\* the RGBELoader calls onLoad
HdriLoaded ==
    /\ pointer # "click"
    /\ hdriLoad = "pending"
    /\ hdriOnLoad
    /\ lastEvent' = Event("hdriLoaded", NoId, NoPoint)
    /\ UNCHANGED << appVars, viewerVars, surfaceVars, pointerVars, issued,
                    moved, modelVars, useHdri, hdriError >>

\* the RGBELoader calls onError
HdriLoadError ==
    /\ pointer # "click"
    /\ hdriLoad = "pending"
    /\ hdriOnError
    /\ lastEvent' = Event("hdriLoadError", NoId, NoPoint)
    /\ UNCHANGED << appVars, viewerVars, surfaceVars, pointerVars, issued,
                    moved, modelVars, useHdri, hdriLoaded >>

\* the 5 s timeout of SafeHdriScene fires
HdriTimeoutFires ==
    /\ pointer # "click"
    /\ hdriTimeout = "armed"
    /\ hdriOnTimeout
    /\ lastEvent' = Event("hdriTimeout", NoId, NoPoint)
    /\ UNCHANGED << appVars, viewerVars, surfaceVars, pointerVars, issued,
                    moved, modelVars, useHdri, hdriLoaded, hdriLoad >>

\* ------------------------------------------------------ specifications
\* the annotation store and the placement / drag controller
Next ==
    \/ StartPlacing
    \/ \E id \in Ids : MarkerPointerDown(id)
    \/ ScenePointerDown
    \/ \E id \in Ids, point \in Points : MarkerPointerMove(id, point)
    \/ \E point \in Points : ScenePointerMove(point)
    \/ \E id \in Ids : MarkerPointerUp(id)
    \/ ScenePointerUp
    \/ PointerUpOutside
    \/ \E point \in Points : SceneClick(point)
    \/ \E id \in Ids, title \in Titles : EditTitle(id, title)
    \/ \E id \in Ids, description \in Descriptions :
         EditDescription(id, description)
    \/ \E id \in Ids : Delete(id)
    \/ ToggleShowAnnotations

Spec == Init /\ [][Next]_vars

\* the application state across losses of the rendering surface
NextSurface ==
    \/ StartPlacing
    \/ ScenePointerDown
    \/ ScenePointerUp
    \/ \E point \in Points : SceneClick(point)
    \/ \E t \in SliderMin .. SliderMax : SetTimeOfDay(t)
    \/ ToggleNightLights
    \/ ContextLost
    \/ ReloadTimerFires

SpecSurface == Init /\ [][NextSurface]_vars

\* the uploaded model and the HDRI environment: the loads and their
\* callbacks, in any order the loaders and the timer allow
NextAssets ==
    \/ \E name \in FileNames : Upload(name)
    \/ \E r \in loads : ModelLoaded(r)
    \/ \E r \in loads : ModelLoadError(r)
    \/ ToggleHdri
    \/ HdriLoaded
    \/ HdriLoadError
    \/ HdriTimeoutFires

SpecAssets == Init /\ [][NextAssets]_vars

\* a timeout that is armed and not cleared fires; a loader may never answer
SpecAssetsFair == SpecAssets /\ WF_vars(HdriTimeoutFires)

\* the uploaded model next to the state it must leave alone: the lighting
\* inputs (the slider at its two ends) and the annotations placed
NextModel ==
    \/ \E name \in FileNames : Upload(name)
    \/ \E r \in loads : ModelLoaded(r)
    \/ \E r \in loads : ModelLoadError(r)
    \/ \E t \in { SliderMin, SliderMax } : SetTimeOfDay(t)
    \/ ToggleNightLights
    \/ StartPlacing
    \/ ScenePointerDown
    \/ ScenePointerUp
    \/ \E point \in Points : SceneClick(point)

SpecModel == Init /\ [][NextModel]_vars

TypeOK ==
    /\ \A i \in 1 .. Len(annotations) :
         /\ annotations[i].id \in Ids
         /\ annotations[i].title \in Titles
         /\ annotations[i].description \in Descriptions
    /\ showAnnotations \in BOOLEAN
    /\ timeOfDay \in SliderMin .. SliderMax
    /\ nightLightsEnabled \in BOOLEAN
    /\ placing \in BOOLEAN
    /\ draggingId \in Ids \cup { NoId }
    /\ dragOverPoint \in { PointTuple(p) : p \in Points } \cup { NoPoint }
    /\ contextLost \in BOOLEAN
    /\ reloadAttempts \in 0 .. MaxReloadAttempts
    /\ reloadTimers \in 0 .. MaxReloadAttempts
    /\ pointer \in { "up", "down", "click" }
    /\ moved \in BOOLEAN
    /\ issued \in 0 .. MaxIds
    /\ reloads \in 0 .. MaxReloads

\* ------------------------------------------------------------ the steps
\* the step is the click of the canvas / a pointerup on a marker / ...
IsSceneClick == pointer = "click" /\ pointer' = "up"
IsMarkerPointerDown == pointer = "up" /\ pointer' = "down" /\ downOn' # NoId
IsMarkerPointerUp == pointer = "down" /\ pointer' = "click" /\ upOn' # NoId
IsScenePointerUp == pointer = "down" /\ pointer' = "click" /\ upOn' = NoId
IsPointerUpOutside == pointer = "down" /\ pointer' = "up"
IsPointerMove == lastEvent'.type = "move" /\ moved'
IsEdit == lastEvent'.type = "edit" /\ annotations' # annotations
IsReload == reloads' # reloads

\* the position stored for annotation id in the list a
PositionOf(a, id) ==
    LET i == CHOOSE i \in 1 .. Len(a) : a[i].id = id IN a[i].position

\* ------------------------------------------------------------------- C1
\* C1: a click of the scene while placing is false leaves the annotation
\* list unchanged; a click at point p while placing is true appends exactly
\* one annotation with position p, title "New Annotation" and an empty
\* description, and placing is false after every click of the scene.
C1_PlacementArmedThenConsumed ==
    [][ IsSceneClick =>
          /\ ~placing'
          /\ IF placing
             THEN /\ Len(annotations') = Len(annotations) + 1
                  /\ SubSeq(annotations', 1, Len(annotations)) = annotations
                  /\ LET ann == annotations'[Len(annotations')] IN
                       /\ ann.position = lastEvent'.point
                       /\ ann.title = "New Annotation"
                       /\ ann.description = ""
                       /\ ann.id \notin IdsOf(annotations)
             ELSE annotations' = annotations ]_vars

\* an armed click has just placed the first annotation at (1, 2, 3)
C1_Witness ==
    /\ lastEvent = Event("click", NoId, << 1, 2, 3 >>)
    /\ issued = 1
    /\ ~placing
    /\ Len(annotations) = 1
    /\ annotations[1].position = << 1, 2, 3 >>

\* ------------------------------------------------------------------- C2
\* C2: a pointerdown on a marker while a drag is open leaves draggingId as
\* it was (the second beginDrag is rejected).
C2_BeginDragRejected ==
    [][ (IsMarkerPointerDown /\ draggingId # NoId) =>
          draggingId' = draggingId ]_vars

\* ------------------------------------------------------------------- C3
\* C3: in every reachable state draggingId is null or the id of an
\* annotation in the list (deleting the dragged annotation clears the drag).
C3_NoDanglingDrag ==
    draggingId = NoId \/ draggingId \in IdsOf(annotations)

\* ------------------------------------------------------------------- C4
\* C4: a pointerup on the dragged marker with no pointermove since the drag
\* began leaves the whole annotation list unchanged and clears draggingId.
C4_CommitWithoutUpdate ==
    [][ (IsMarkerPointerUp /\ draggingId = upOn' /\ ~moved) =>
          /\ annotations' = annotations
          /\ draggingId' = NoId ]_vars

\* the marker was pressed and released with no pointermove in between
C4_Witness ==
    /\ lastEvent.type = "markerUp"
    /\ pointer = "click"
    /\ downOn = upOn
    /\ upOn = lastEvent.id
    /\ ~moved
    /\ draggingId = NoId
    /\ upOn \in IdsOf(annotations)

\* ------------------------------------------------------------------- C5
\* C5 (as stated): dragOverPoint is set if and only if draggingId is set.
C5_PreviewIffDragging ==
    (dragOverPoint # NoPoint) <=> (draggingId # NoId)

\* C5 (amended): dragOverPoint is set if and only if draggingId is set and a
\* pointermove has reached the canvas since the drag began.
C5_PreviewIffDraggingAndMoved ==
    (dragOverPoint # NoPoint) <=> (draggingId # NoId /\ moved)

\* a drag has begun and no pointermove has arrived yet
C5_Witness ==
    /\ lastEvent.type = "markerDown"
    /\ draggingId = lastEvent.id
    /\ ~moved
    /\ dragOverPoint = NoPoint

\* ------------------------------------------------------------------- C6
\* C6: a pointermove changes no annotation; whenever the stored position of
\* an annotation changes, the step is the pointerup on the marker of the
\* annotation being dragged and the new position is the preview point.
C6_PositionOnlyAtCommit ==
    [][ /\ IsPointerMove => annotations' = annotations
        /\ \A id \in IdsOf(annotations) \cap IdsOf(annotations') :
             PositionOf(annotations', id) # PositionOf(annotations, id) =>
               /\ IsMarkerPointerUp
               /\ upOn' = id
               /\ draggingId = id
               /\ dragOverPoint # NoPoint
               /\ PositionOf(annotations', id) = dragOverPoint ]_vars

\* mid-drag: the preview of the dragged annotation differs from its stored
\* position, while another annotation is in the list
C6_Witness ==
    /\ draggingId \in IdsOf(annotations)
    /\ dragOverPoint # NoPoint
    /\ PositionOf(annotations, draggingId) # dragOverPoint
    /\ Len(annotations) = 2

\* ------------------------------------------------------------------- C7
\* C7: a pointer release that is not on the dragged marker (on the empty
\* scene, on another marker, or outside the canvas) clears draggingId and
\* dragOverPoint and leaves the annotation list unchanged.
C7_ReleaseCancelsDrag ==
    [][ ( \/ IsScenePointerUp
          \/ IsPointerUpOutside
          \/ (IsMarkerPointerUp /\ upOn' # draggingId) ) =>
          /\ draggingId' = NoId
          /\ dragOverPoint' = NoPoint
          /\ annotations' = annotations ]_vars

\* ------------------------------------------------------------------- C8
\* C8: the click of a press and release on one marker while placing is true
\* creates no annotation and leaves placing true.
C8_MarkerGestureSuppressesPlacement ==
    [][ (IsSceneClick /\ downOn # NoId /\ upOn = downOn /\ placing) =>
          /\ annotations' = annotations
          /\ placing' ]_vars

\* ------------------------------------------------------------------- C9
\* C9: no two annotations of the list share an id, and an edit changes only
\* the title and the description of the annotation edited: the length and
\* order of the list, every id and position, and every other annotation
\* stay as they were.
UniqueIds ==
    \A i, j \in 1 .. Len(annotations) :
        i # j => annotations[i].id # annotations[j].id

C9_IdsUniqueAndEditFrame ==
    /\ []UniqueIds
    /\ [][ IsEdit =>
             /\ Len(annotations') = Len(annotations)
             /\ \A i \in 1 .. Len(annotations) :
                  /\ annotations'[i].id = annotations[i].id
                  /\ annotations'[i].position = annotations[i].position
                  /\ annotations[i].id # lastEvent'.id =>
                       annotations'[i] = annotations[i] ]_vars

\* an edit has just given one of two annotations a title of its own
C9_Witness ==
    /\ lastEvent.type = "edit"
    /\ Len(annotations) = 2
    /\ annotations[1].title # annotations[2].title
    /\ annotations[1].id # annotations[2].id

\* ------------------------------------------------------------------ C10
\* C10: the recovery from a loss of the WebGL context leaves the annotation
\* list, timeOfDay and nightLightsEnabled as they were before the loss.
C10_RecoveryKeepsState ==
    [][ IsReload =>
          UNCHANGED << annotations, timeOfDay, nightLightsEnabled >> ]_vars

\* ------------------------------------------------------------------ C11
\* C11: the number of automatic recoveries (page reloads) after losses of
\* the WebGL context never exceeds two.
C11_ReloadsBounded == reloads <= 2

\* ------------------------------------------------------------------ C12
\* the slider values at which the claims place the night
NightHours == (0 .. 5) \cup (20 .. 24)

\* C12: isNight is true at exactly the slider values 0 .. 5 and 20 .. 24; it
\* is true at 20 and at 5, false at 19 and at 6.
C12_IsNightHours ==
    /\ isNight <=> timeOfDay \in NightHours
    /\ timeOfDay \in { 5, 20 } => isNight
    /\ timeOfDay \in { 6, 19 } => ~isNight

\* the slider has just been set to 20, and it is night
C12_Witness ==
    /\ lastEvent.type = "setTimeOfDay"
    /\ timeOfDay = 20
    /\ isNight

C14_NightLights ==
    /\ [](Len(pointLights) =
            IF timeOfDay \in NightHours /\ nightLightsEnabled THEN 3 ELSE 0)
    /\ [][ lastEvent'.type = "toggleNightLights" /\
           nightLightsEnabled' # nightLightsEnabled =>
             /\ isNight' = isNight
             /\ sunParams' = sunParams
             /\ ambientIntensity' = ambientIntensity
             /\ ambientColor' = ambientColor
             /\ Len(pointLights') # Len(pointLights) ]_vars

\* at 21:00 the night lights have just been switched off
C14_Witness ==
    /\ lastEvent.type = "toggleNightLights"
    /\ timeOfDay = 21
    /\ ~nightLightsEnabled
    /\ pointLights = << >>

\* ------------------------------------------------------------------ C15
\* C15: the sun's colour is warm (#ffb347) when timeOfDay < 8.4 or
\* timeOfDay > 15.6 and neutral (#fffbe6) otherwise; it is warm at 6 and at
\* 18 and neutral at 12.
C15_SunColorBuckets ==
    /\ sunParams.color =
         IF 10 * timeOfDay < 84 \/ 10 * timeOfDay > 156
         THEN "#ffb347" ELSE "#fffbe6"
    /\ timeOfDay \in { 6, 18 } => sunParams.color = "#ffb347"
    /\ timeOfDay = 12 => sunParams.color = "#fffbe6"

\* the slider has just been set to 18, and the sun is warm
C15_Witness ==
    /\ lastEvent.type = "setTimeOfDay"
    /\ timeOfDay = 18
    /\ sunParams.color = "#ffb347"

\* ------------------------------------------------------------------ C16
\* C16 (as stated): timeOfDay lies in the half-open range [0, 24).
C16_TimeBelow24 == 0 <= timeOfDay /\ timeOfDay < 24

\* C16 (amended): timeOfDay lies in the closed range [0, 24].
C16_TimeUpTo24 == 0 <= timeOfDay /\ timeOfDay <= 24

\* the slider has just been set to its maximum
C16_Witness ==
    /\ lastEvent.type = "setTimeOfDay"
    /\ timeOfDay = 24

\* ------------------------------------------------------------------ C17
\* C17: with the HDRI environment enabled, once the load has failed or the
\* timeout has fired the default scene is shown, and a scene that is still
\* loading leads to the HDRI environment (the load succeeded) or to the
\* default scene (the fallback).
C17_HdriFallsBack ==
    /\ [](useHdri /\ (hdriLoad = "failed" \/ hdriTimeout = "fired") =>
            sceneRendered = "SimpleScene")
    /\ (sceneRendered = "loading") ~>
            (sceneRendered = "hdri" \/ sceneRendered = "SimpleScene")

\* the timeout has fired while the loader has not answered
C17_Witness ==
    /\ lastEvent.type = "hdriTimeout"
    /\ useHdri
    /\ hdriLoad = "pending"
    /\ hdriTimeout = "fired"
    /\ sceneRendered = "SimpleScene"

\* ------------------------------------------------------------------ C18
\* the file uploaded last is of an unsupported type
Unsupported ==
    /\ modelFile # NoFile
    /\ ~IsObj(modelFile.name)
    /\ ~IsFbx(modelFile.name)

\* the load of the file uploaded last has just failed
CurrentLoadFailed ==
    lastEvent.type = "modelLoadError" /\ lastEvent.id = modelFile.n

\* C18: when the file uploaded last is of an unsupported type, or its load
\* has failed, the failure marker is shown in the place of the model; the
\* step that sets the error leaves the annotations, the lighting inputs and
\* the rest of the viewer's state as they were, and the viewer still takes
\* the next pointer event.
C18_UnsupportedFileNonFatal ==
    /\ [](Unsupported \/ CurrentLoadFailed =>
            LoadedModelRender = "failure marker")
    /\ [](error # NoError /\ pointer = "up" => ENABLED ScenePointerDown)
    /\ [][ error' # error /\ error' # NoError =>
             UNCHANGED << appVars, viewerVars, surfaceVars, hdriVars,
                          pointerVars >> ]_vars

\* a file that is neither .obj nor .fbx has just been uploaded while an
\* annotation is in the list and the time of day is not the initial one
C18_Witness ==
    /\ lastEvent.type = "upload"
    /\ Unsupported
    /\ error = "Unsupported file type"
    /\ Len(annotations) = 1
    /\ timeOfDay = SliderMax

\* ------------------------------------------------------------------ C19
\* C19: once the load of the file uploaded last has succeeded, that model
\* is displayed, whatever became of the uploads before it.
C19_LastUploadDisplayed ==
    lastEvent.type = "modelLoaded" /\ lastEvent.id = modelFile.n =>
        LoadedModelRender = "model" /\ object = modelFile.n

\* ------------------------------------------------------------------ C20
\* C20: the object displayed is absent or the one loaded from the file
\* uploaded last, and a callback of the loader of a file that has been
\* replaced changes neither the object nor the error.
C20_StaleCallbacksIgnored ==
    /\ [](object = NoObject \/ object = modelFile.n)
    /\ [][ lastEvent'.type \in { "modelLoaded", "modelLoadError" } /\
           lastEvent'.id # modelFile.n =>
             UNCHANGED << object, error >> ]_vars

\* the loader of a replaced file has just called onLoad while the object of
\* the file uploaded last is displayed
C20_Witness ==
    /\ lastEvent.type = "modelLoaded"
    /\ lastEvent.id # modelFile.n
    /\ object = modelFile.n
    /\ object # NoObject

\* C21: in every state a drag preview implies an open drag (dragOverPoint
\* is not null only if draggingId is not null), and a pointer-move event
\* received while no drag is open leaves the preview null.
C21_PreviewImpliesDrag ==
    /\ [](dragOverPoint # NoPoint => draggingId # NoId)
    /\ [][ lastEvent'.type = "move" /\ draggingId = NoId =>
             dragOverPoint' = NoPoint ]_vars

\* a pointer-move event has just been handled while no drag was open
C21_Witness ==
    /\ lastEvent.type = "move"
    /\ moved
    /\ draggingId = NoId
    /\ dragOverPoint = NoPoint
    /\ annotations # << >>

\* C22: the 5 s timeout of the HDRI load fires only while the load is still
\* pending, a load that has succeeded or failed never leaves the timeout
\* armed, and while the HDRI stays switched on a fallback selected by the
\* timeout or by an error stays: no later event, a late successful load
\* included, makes the scene rendered anything but the simple scene.
C22_FallbackStickyTimeoutDisarmed ==
    /\ [](hdriLoad \in { "loaded", "failed" } => hdriTimeout # "armed")
    /\ [][ hdriTimeout # "fired" /\ hdriTimeout' = "fired" =>
             hdriLoad = "pending" ]_vars
    /\ [][ useHdri /\ hdriError /\ useHdri' =>
             hdriError' /\ sceneRendered' = "SimpleScene" ]_vars

\* the load has succeeded after the timeout had selected the fallback, and
\* the simple scene is still the one rendered
C22_Witness ==
    /\ lastEvent.type = "hdriLoaded"
    /\ useHdri
    /\ hdriTimeout = "fired"
    /\ hdriLoad = "loaded"
    /\ hdriLoaded
    /\ sceneRendered = "SimpleScene"

\* C23: every marker is displayed at the drag preview point if its
\* annotation is the one being dragged and a preview exists, and at the
\* stored position of its annotation otherwise; isDragging is on for exactly
\* the annotations whose id is draggingId, and at most one marker has it on.
C23_MarkerProjection ==
    /\ Len(Markers) = Len(annotations)
    /\ \A i \in 1 .. Len(annotations) :
         /\ Markers[i].isDragging <=> annotations[i].id = draggingId
         /\ Markers[i].position =
              IF annotations[i].id = draggingId /\ dragOverPoint # NoPoint
              THEN dragOverPoint
              ELSE annotations[i].position
         /\ (annotations[i].id # draggingId \/ dragOverPoint = NoPoint) =>
              Markers[i].position = annotations[i].position
    /\ Cardinality({ i \in 1 .. Len(annotations) :
                       Markers[i].isDragging }) <= 1

\* two markers are rendered, one is being dragged and is displayed at a
\* preview point away from its stored position, the other one is displayed
\* at its stored position, which differs from the preview
C23_Witness ==
    /\ Len(annotations) = 2
    /\ dragOverPoint # NoPoint
    /\ \E i, j \in 1 .. 2 :
         /\ i # j
         /\ Markers[i].isDragging
         /\ ~Markers[j].isDragging
         /\ Markers[i].position = dragOverPoint
         /\ Markers[i].position # annotations[i].position
         /\ Markers[j].position = annotations[j].position
         /\ Markers[j].position # dragOverPoint

====
